---- MODULE Spec2Model ----
(***************************************************************************)
(* Model of photo_tools: photo_date_extractor.py (date collection and      *)
(* reconciliation into "Set Date") and photo_date_updater.py (write-back   *)
(* of a chosen date into a photo's EXIF block).                            *)
(*                                                                         *)
(* A datetime is the tuple <<year, month, day, hour, minute, second,       *)
(* microsecond>>; Python's None is the empty tuple.  A Python str is the   *)
(* sequence of the Unicode code points of its characters.                  *)
(***************************************************************************)
EXTENDS Integers, Sequences, FiniteSets, TLC

VARIABLES
    cand,         \* collect_image_metadata: date_fields as built at lines 210-217
    date_fields,  \* collect_image_metadata: date_fields after sane_date (line 220)
    set_date,     \* collect_image_metadata: date_fields['Set Date'] (line 237)
    cpc,          \* collect_image_metadata: "start" before the file's row, "done" after
    date_in,      \* standardize_date: the calendar fields the raw EXIF string was written from
    raw_str,     \* standardize_date: its argument
    std,          \* standardize_date: its result
    npc,          \* standardize_date: "start" before the call, "done" after
    open_fails,   \* extract_exif_data: Image.open or _getexif raises for this file
    exif_data,    \* extract_exif_data: the items of img._getexif(), in iteration order
    dates,        \* extract_exif_data: the returned dict (None for a missing key)
    epc,          \* extract_exif_data: "start" before the call, "done" after
    fs,           \* the photo files on disk: path -> EXIF content
    upc,          \* process_csv: "rows" in the loop, "done" after it, "aborted" in the handler of line 155
    total,        \* process_csv: number of rows of the CSV file
    remaining,    \* process_csv: rows the reader has not yielded yet
    noutcomes,    \* process_csv: rows that ended as written or skipped
    last          \* process_csv: what the most recent row did

collect_vars == <<cand, date_fields, set_date, cpc>>

normalize_vars == <<date_in, raw_str, std, npc>>

extract_vars == <<open_fails, exif_data, dates, epc>>

update_vars == <<fs, upc, total, remaining, noutcomes, last>>

vars == <<collect_vars, normalize_vars, extract_vars, update_vars>>

None == <<>>

(* Longest path, in bytes with its final NUL, that the kernel looks up *)
PATH_MAX == 4096

----------------------------------------------------------------------------
(* Bounds of the checked instances *)

MaxHour == 1

MaxSecond == 1

MaxTags == 3

MaxRows == 2

MaxFiles == 1

----------------------------------------------------------------------------
(* datetime values *)

Year(dt) == dt[1]

DateOf(dt) == <<dt[1], dt[2], dt[3]>>

TimeOf(dt) == <<dt[4], dt[5], dt[6], dt[7]>>

DateLess(a, b) ==
    \E i \in 1..7 : a[i] < b[i] /\ \A j \in 1..(i - 1) : a[j] = b[j]

----------------------------------------------------------------------------
(* Python str values: sequences of Unicode code points *)

(* The printable ASCII characters, from the blank (32) to the tilde (126); *)
(* the double quote (34) and the grave accent (96) stand under their names *)
AsciiChars ==
    <<
    " ", "!", "QUOTE", "#", "$", "%", "&", "'", "(", ")", "*", "+", ",",
    "-", ".", "/", "0", "1", "2", "3", "4", "5", "6", "7", "8", "9", ":",
    ";", "<", "=", ">", "?", "@", "A", "B", "C", "D", "E", "F", "G", "H",
    "I", "J", "K", "L", "M", "N", "O", "P", "Q", "R", "S", "T", "U", "V",
    "W", "X", "Y", "Z", "[", "\\", "]", "^", "_", "GRAVE", "a", "b", "c",
    "d", "e", "f", "g", "h", "i", "j", "k", "l", "m", "n", "o", "p", "q",
    "r", "s", "t", "u", "v", "w", "x", "y", "z", "{", "|", "}", "~">>

(* ord(c) of a printable ASCII character, of the tab and of the newline *)
Ord ==
    [c \in {AsciiChars[k] : k \in 1..95} \cup {"\t", "\n"} |->
        IF c = "\t" THEN 9
        ELSE IF c = "\n" THEN 10
        ELSE 31 + CHOOSE k \in 1..95 : AsciiChars[k] = c]

(* The str whose characters are the ASCII characters of the tuple t *)
Str(t) == [i \in 1..Len(t) |-> Ord[t[i]]]

(* Unicode 14.0.0, the database of the interpreter (unicodedata): the code *)
(* point of the digit zero of every script.  The ten decimal digits of a   *)
(* script are consecutive.  int() and the \d of a regular expression take  *)
(* every one of them.                                                      *)
DigitZeros ==
    { 48, 1632, 1776, 1984, 2406, 2534, 2662, 2790, 2918, 3046, 3174, 3302,
      3430, 3558, 3664, 3792, 3872, 4160, 4240, 6112, 6160, 6470, 6608, 6784,
      6800, 6992, 7088, 7232, 7248, 42528, 43216, 43264, 43472, 43504, 43600,
      44016, 65296, 66720, 68912, 69734, 69872, 69942, 70096, 70384, 70736,
      70864, 71248, 71360, 71472, 71904, 72016, 72784, 73040, 73120, 92768,
      92864, 93008, 120782, 120792, 120802, 120812, 120822, 123200, 123632,
      125264, 130032}

DigitSet == UNION {z..(z + 9) : z \in DigitZeros}

IsDigit(c) == c \in DigitSet

DigitVal(c) ==
    IF c >= 48 /\ c <= 57 THEN c - 48
    ELSE c - (CHOOSE z \in DigitZeros : c >= z /\ c <= z + 9)

AllDigits(s) == \A i \in 1..Len(s) : IsDigit(s[i])

(* Is c in the class [lo-hi] of ASCII characters? *)
InClass(c, lo, hi) == c >= Ord[lo] /\ c <= Ord[hi]

RECURSIVE DigitsVal(_)
DigitsVal(s) ==
    IF s = <<>> THEN 0
    ELSE 10 * DigitsVal(SubSeq(s, 1, Len(s) - 1)) + DigitVal(s[Len(s)])

(* str(n) for n >= 0 *)
RECURSIVE Dec(_)
Dec(n) == IF n < 10 THEN <<48 + n>>
          ELSE Dec(n \div 10) \o <<48 + (n % 10)>>

(* '%02d' % n *)
Pad2(n) == IF n < 10 THEN <<48>> \o Dec(n) ELSE Dec(n)

Count(s, c) == Cardinality({i \in 1..Len(s) : s[i] = c})

(* s.replace(a, b, 2) when s.count(a) == 2: both occurrences are replaced *)
Replace(s, a, b) == [i \in 1..Len(s) |-> IF s[i] = a THEN b ELSE s[i]]

FirstIndex(s, seps) ==
    IF \E i \in 1..Len(s) : s[i] \in seps
    THEN CHOOSE i \in 1..Len(s) : s[i] \in seps /\ \A j \in 1..(i - 1) : s[j] \notin seps
    ELSE 0

(* re.split(r'[...]', s) for a class of single characters, and s.split(c) *)
RECURSIVE Split(_, _)
Split(s, seps) ==
    LET i == FirstIndex(s, seps)
    IN  IF i = 0 THEN <<s>>
        ELSE <<SubSeq(s, 1, i - 1)>> \o Split(SubSeq(s, i + 1, Len(s)), seps)

(* sep.join(parts) *)
RECURSIVE Join(_, _)
Join(parts, sep) ==
    IF parts = <<>> THEN <<>>
    ELSE IF Len(parts) = 1 THEN parts[1]
    ELSE parts[1] \o sep \o Join(Tail(parts), sep)

(* The whitespace int() skips around its literal: tab to carriage return, *)
(* the blank, U+0085, U+00A0 and the Unicode space separators              *)
IntWhitespace ==
    (9..13) \cup (8192..8202) \cup (8232..8233)
    \cup {32, 133, 160, 5760, 8239, 8287, 12288}

(* The whitespace of str.isspace and of the regular expression \s: that of *)
(* int() and the separators U+001C to U+001F                               *)
WhitespaceChars == IntWhitespace \cup (28..31)

(* s without the leading and trailing whitespace that int() skips *)
Strip(s) ==
    IF \A i \in 1..Len(s) : s[i] \in IntWhitespace THEN <<>>
    ELSE LET first == CHOOSE i \in 1..Len(s) :
                         s[i] \notin IntWhitespace
                         /\ \A j \in 1..(i - 1) : s[j] \in IntWhitespace
             back == CHOOSE k \in 0..(Len(s) - 1) :
                         s[Len(s) - k] \notin IntWhitespace
                         /\ \A j \in (Len(s) - k + 1)..Len(s) : s[j] \in IntWhitespace
         IN  SubSeq(s, first, Len(s) - back)

(* The literal of int(s) after the whitespace around it and the sign *)
IntBody(s) ==
    LET t == Strip(s)
    IN  IF t # <<>> /\ t[1] \in {Ord["+"], Ord["-"]} THEN Tail(t) ELSE t

(* sys.get_int_max_str_digits(): the most digits int() converts *)
INT_MAX_STR_DIGITS == 4300

(* int(s) succeeds: whitespace around an optional sign and decimal digits, *)
(* with single underscores allowed between two digits, and no more than    *)
(* INT_MAX_STR_DIGITS digits, leading zeros included                       *)
IsInt(s) ==
    LET body == IntBody(s)
    IN  /\ body # <<>>
        /\ IsDigit(body[1])
        /\ IsDigit(body[Len(body)])
        /\ \A i \in 1..Len(body) : IsDigit(body[i]) \/ body[i] = Ord["_"]
        /\ \A i \in 1..(Len(body) - 1) :
              ~(body[i] = Ord["_"] /\ body[i + 1] = Ord["_"])
        /\ \/ Len(body) <= INT_MAX_STR_DIGITS
           \/ Cardinality({i \in 1..Len(body) : IsDigit(body[i])}) <= INT_MAX_STR_DIGITS

(* The digits of the literal of int(s), as their values *)
IntDigits(s) ==
    LET d == SelectSeq(IntBody(s), IsDigit)
    IN  [i \in 1..Len(d) |-> DigitVal(d[i])]

(* Is the number with the digits a less than the one with the digits b?   *)
(* The digits are compared from the right, the shorter number continued   *)
(* with zeros: an int of Python has no width.                             *)
DigitsLess(a, b) ==
    LET n == IF Len(a) > Len(b) THEN Len(a) ELSE Len(b)
        A(i) == IF i <= Len(a) THEN a[Len(a) + 1 - i] ELSE 0
        B(i) == IF i <= Len(b) THEN b[Len(b) + 1 - i] ELSE 0
    IN  \E i \in 1..n : A(i) < B(i) /\ \A j \in (i + 1)..n : A(j) = B(j)

(* Is int(s) below zero? *)
IsNegative(s) ==
    /\ Strip(s)[1] = Ord["-"]
    /\ \E i \in 1..Len(IntDigits(s)) : IntDigits(s)[i] # 0

(* int(s) < int(t), for s and t that int() converts *)
IntLess(s, t) ==
    IF IsNegative(s)
    THEN ~IsNegative(t) \/ DigitsLess(IntDigits(t), IntDigits(s))
    ELSE ~IsNegative(t) /\ DigitsLess(IntDigits(s), IntDigits(t))

----------------------------------------------------------------------------
(* datetime.strptime and datetime.strftime *)

ValueError == <<-1>>

IsLeap(y) == (y % 4 = 0) /\ ((y % 100 # 0) \/ (y % 400 = 0))

DaysInMonth(y, m) ==
    IF m = 2 THEN (IF IsLeap(y) THEN 29 ELSE 28)
    ELSE IF m \in {4, 6, 9, 11} THEN 30
    ELSE 31

IsDirective(item) == item \in {"%Y", "%m", "%d", "%H", "%M", "%S"}

(* Is the n-character token of s at position i matched by one of the       *)
(* n-character alternatives of the directive's regular expression?         *)
(*   %Y \d\d\d\d            %m 1[0-2]|0[1-9]|[1-9]                           *)
(*   %d 3[0-1]|[1-2]\d|0[1-9]|[1-9]| [1-9]                                  *)
(*   %H 2[0-3]|[0-1]\d|\d   %M [0-5]\d|\d   %S 6[0-1]|[0-5]\d|\d             *)
(* A class [a-b] takes ASCII digits, \d the decimal digits of any script.  *)
TokenOk(item, s, i, n) ==
    /\ i + n - 1 <= Len(s)
    /\ \E a \in {s[i]} : \E b \in {IF n >= 2 THEN s[i + 1] ELSE 0} :
          CASE item = "%Y" -> n = 4 /\ \A k \in i..(i + 3) : IsDigit(s[k])
            [] item = "%m" -> \/ n = 2 /\ a = Ord["1"] /\ InClass(b, "0", "2")
                              \/ n = 2 /\ a = Ord["0"] /\ InClass(b, "1", "9")
                              \/ n = 1 /\ InClass(a, "1", "9")
            [] item = "%d" -> \/ n = 2 /\ a = Ord["3"] /\ InClass(b, "0", "1")
                              \/ n = 2 /\ InClass(a, "1", "2") /\ IsDigit(b)
                              \/ n = 2 /\ a = Ord["0"] /\ InClass(b, "1", "9")
                              \/ n = 1 /\ InClass(a, "1", "9")
                              \/ n = 2 /\ a = Ord[" "] /\ InClass(b, "1", "9")
            [] item = "%H" -> \/ n = 2 /\ a = Ord["2"] /\ InClass(b, "0", "3")
                              \/ n = 2 /\ InClass(a, "0", "1") /\ IsDigit(b)
                              \/ n = 1 /\ IsDigit(a)
            [] item = "%M" -> \/ n = 2 /\ InClass(a, "0", "5") /\ IsDigit(b)
                              \/ n = 1 /\ IsDigit(a)
            [] item = "%S" -> \/ n = 2 /\ a = Ord["6"] /\ InClass(b, "0", "1")
                              \/ n = 2 /\ InClass(a, "0", "5") /\ IsDigit(b)
                              \/ n = 1 /\ IsDigit(a)
            [] OTHER -> FALSE

(* Length of the run of whitespace of s that starts at position i *)
SpaceRun(s, i) ==
    Cardinality({k \in i..Len(s) : \A j \in i..k : s[j] \in WhitespaceChars})

(* The token lengths a format item can take at position i of s, in the     *)
(* order the regular expression of _strptime tries them: two digits before *)
(* one digit for a directive, '\s+' (greedy) for a blank of the format,    *)
(* the character itself for any other literal.                             *)
TokenLens(item, s, i) ==
    IF item = "%Y" THEN (IF TokenOk(item, s, i, 4) THEN <<4>> ELSE <<>>)
    ELSE IF IsDirective(item)
    THEN (IF TokenOk(item, s, i, 2) THEN <<2>> ELSE <<>>)
         \o (IF TokenOk(item, s, i, 1) THEN <<1>> ELSE <<>>)
    ELSE IF item = " "
    THEN [k \in 1..SpaceRun(s, i) |-> SpaceRun(s, i) + 1 - k]
    ELSE (IF i <= Len(s) /\ s[i] = Ord[item] THEN <<1>> ELSE <<>>)

NoMatch == [ok |-> FALSE, f |-> <<>>]

RECURSIVE MatchFrom(_, _, _, _), TryLens(_, _, _, _, _)
(* The match of items j.. of the format against s from position i: the     *)
(* values of the directives, or NoMatch; the whole of s has to be used up. *)
MatchFrom(s, i, fmt, j) ==
    IF j > Len(fmt)
    THEN (IF i > Len(s) THEN [ok |-> TRUE, f |-> <<>>] ELSE NoMatch)
    ELSE TryLens(s, i, fmt, j, TokenLens(fmt[j], s, i))

TryLens(s, i, fmt, j, lens) ==
    IF lens = <<>> THEN NoMatch
    ELSE LET n == Head(lens)
             rest == MatchFrom(s, i + n, fmt, j + 1)
         IN  IF rest.ok
             THEN (IF IsDirective(fmt[j])
                   THEN [ok |-> TRUE,
                         f |-> <<<<fmt[j], DigitsVal(SelectSeq(SubSeq(s, i, i + n - 1), IsDigit))>>>>
                               \o rest.f]
                   ELSE rest)
             ELSE TryLens(s, i, fmt, j, Tail(lens))

(* The value found for a directive, or its default *)
Found(f, item, default) ==
    IF \E k \in 1..Len(f) : f[k][1] = item
    THEN f[CHOOSE k \in 1..Len(f) : f[k][1] = item][2]
    ELSE default

(* The datetime of the values y, m, d, H, M, S, or ValueError when          *)
(* datetime() rejects them or the second is a leap second                  *)
DateTimeOf(y, m, d, H, M, S) ==
    IF y < 1 \/ d > DaysInMonth(y, m) \/ S > 59 THEN ValueError
    ELSE <<y, m, d, H, M, S, 0>>

(* The datetime of a match r of the format, or ValueError *)
DateTimeOfMatch(r) ==
    IF ~r.ok THEN ValueError
    ELSE DateTimeOf(Found(r.f, "%Y", 1900), Found(r.f, "%m", 1), Found(r.f, "%d", 1),
                    Found(r.f, "%H", 0), Found(r.f, "%M", 0), Found(r.f, "%S", 0))

(* datetime.strptime(s, fmt): the datetime, or ValueError *)
strptime(s, fmt) == DateTimeOfMatch(MatchFrom(s, 1, fmt, 1))

EXIF_DATE_FORMAT == <<"%Y", ":", "%m", ":", "%d", " ", "%H", ":", "%M", ":", "%S">>

(* dt.strftime(EXIF_DATE_FORMAT); %Y is not zero-padded by the C library *)
strftime_exif(dt) ==
    Dec(dt[1]) \o Str(<<":">>) \o Pad2(dt[2]) \o Str(<<":">>) \o Pad2(dt[3]) \o Str(<<" ">>)
    \o Pad2(dt[4]) \o Str(<<":">>) \o Pad2(dt[5]) \o Str(<<":">>) \o Pad2(dt[6])

----------------------------------------------------------------------------
(* photo_date_extractor.py: standardize_date *)

Raised == [ok |-> FALSE, val |-> <<>>]

Returned(s) == [ok |-> TRUE, val |-> s]

strip_fraction(s) == IF Count(s, Ord["."]) > 0 THEN Split(s, {Ord["."]})[1] ELSE s

slashes_to_colons(s) ==
    IF Count(s, Ord["/"]) = 2 THEN Replace(s, Ord["/"], Ord[":"]) ELSE s

dashes_to_colons(s) ==
    IF Count(s, Ord["-"]) = 2 THEN Replace(s, Ord["-"], Ord[":"]) ELSE s

add_seconds(s) == IF Count(s, Ord[":"]) = 3 THEN s \o Str(<<":", "0", "0">>) ELSE s

reorder_never(s) ==
    LET date_parts == Split(s, {Ord[" "], Ord[":"]})
    IN  IF Len(date_parts) < 3 \/ ~IsInt(date_parts[1]) \/ ~IsInt(date_parts[3])
        THEN Raised
        ELSE Returned(s)

(* lines 66-71: Raised stands for the IndexError or ValueError of line 67 *)
reorder_ymd(s) ==
    LET date_parts == Split(s, {Ord[" "], Ord[":"]})
    IN  IF Len(date_parts) < 3 \/ ~IsInt(date_parts[1]) \/ ~IsInt(date_parts[3])
        THEN Raised
        ELSE IF IntLess(date_parts[1], date_parts[3])
        THEN Returned(date_parts[3] \o Str(<<":">>) \o date_parts[1] \o Str(<<":">>)
                      \o date_parts[2] \o Str(<<" ">>)
                      \o Join(SubSeq(date_parts, 4, Len(date_parts)), Str(<<":">>)))
        ELSE Returned(s)

standardize_date(date_str) ==
    LET r == reorder_ymd(dashes_to_colons(slashes_to_colons(strip_fraction(date_str))))
    IN  IF r.ok THEN Returned(add_seconds(r.val)) ELSE Raised

----------------------------------------------------------------------------
(* photo_date_extractor.py: reconciliation *)

sane_date_accepts_all(date) == date

sane_date_lower_only(date) ==
    IF date = None THEN None
    ELSE IF Year(date) < 1800 THEN None
    ELSE date

sane_date(date) ==
    IF date = None THEN None
    ELSE IF Year(date) < 1800 \/ Year(date) > 2100 THEN None
    ELSE date

earliest_is_latest(fields) ==
    LET present == {fields[k] : k \in DOMAIN fields} \ {None}
    IN  IF present = {} THEN None
        ELSE CHOOSE x \in present : \A y \in present : ~DateLess(x, y)

earliest(fields) ==
    LET present == {fields[k] : k \in DOMAIN fields} \ {None}
    IN  IF present = {} THEN None
        ELSE CHOOSE x \in present : \A y \in present : ~DateLess(y, x)

choose_never_challenger(sd, challenger_date) ==
    IF sd = None \/ challenger_date = None
    THEN (IF sd # None THEN sd ELSE challenger_date)
    ELSE sd

choose_ignoring_day(sd, challenger_date) ==
    IF sd = None \/ challenger_date = None
    THEN (IF sd # None THEN sd ELSE challenger_date)
    ELSE IF TimeOf(sd) # TimeOf(challenger_date)
         THEN challenger_date
         ELSE sd

choose_more_precise_date(sd, challenger_date) ==
    IF sd = None \/ challenger_date = None
    THEN (IF sd # None THEN sd ELSE challenger_date)
    ELSE IF DateOf(sd) = DateOf(challenger_date)
            /\ TimeOf(sd) # TimeOf(challenger_date)
         THEN challenger_date
         ELSE sd

exif_upgrade(sd, exif_date) ==
    IF exif_date # None THEN choose_more_precise_date(sd, exif_date) ELSE sd

modified_upgrade_unguarded(sd, exif_date, modified_time) ==
    IF modified_time # None
    THEN choose_more_precise_date(sd, modified_time)
    ELSE sd

modified_upgrade(sd, exif_date, modified_time) ==
    IF modified_time # None
    THEN (IF sd # exif_date
          THEN choose_more_precise_date(sd, modified_time)
          ELSE sd)
    ELSE sd

Slots == {"From Filename", "File Modified Date", "File Created Date",
          "EXIF DateTime", "EXIF DateTimeOriginal", "EXIF DateTimeDigitized"}

SaneFields(c) == [k \in Slots |-> sane_date(c[k])]

SetDateAfterExif(c) ==
    exif_upgrade(earliest(SaneFields(c)), SaneFields(c)["EXIF DateTimeOriginal"])

ReconciledSetDate(c) ==
    modified_upgrade(SetDateAfterExif(c),
                     SaneFields(c)["EXIF DateTimeOriginal"],
                     c["File Modified Date"])

(* Candidate values of the checked instances: four calendar days around the *)
(* two sanity limits, the sane ones at the hours 0..MaxHour, the others at  *)
(* the first and the last of these hours.                                   *)
InsaneDays == {<<1799, 12, 31>>, <<2101, 1, 1>>}

SaneDays == {<<1800, 1, 1>>, <<2100, 12, 31>>}

Midnight == <<0, 0, 0, 0>>

DateValues ==
    {d \o <<h, 0, 0, 0>> : d \in SaneDays, h \in 0..MaxHour}
    \cup {d \o <<h, 0, 0, 0>> : d \in InsaneDays, h \in {0, MaxHour}}

(* extract_filename_date: the token before the first "_" only ever matches  *)
(* '%Y%m%d' or '%Y-%m-%d', so a filename date is a midnight value.          *)
FilenameValues == {d \o Midnight : d \in InsaneDays \cup SaneDays}

(* extract_file_dates returns both file times or neither. *)
Candidates ==
    {c \in [Slots -> DateValues \cup {None}] :
        /\ c["From Filename"] \in FilenameValues \cup {None}
        /\ (c["File Modified Date"] = None) <=> (c["File Created Date"] = None)}

InitCollect ==
    /\ cand \in Candidates
    /\ date_fields = [k \in Slots |-> None]
    /\ set_date = None
    /\ cpc = "start"

IdleCollect ==
    /\ cand = [k \in Slots |-> None]
    /\ date_fields = [k \in Slots |-> None]
    /\ set_date = None
    /\ cpc = "idle"

CollectImageMetadata ==
    /\ cpc = "start"
    /\ date_fields' = SaneFields(cand)
    /\ set_date' = ReconciledSetDate(cand)
    /\ cpc' = "done"
    /\ UNCHANGED <<cand, normalize_vars, extract_vars, update_vars>>

----------------------------------------------------------------------------
(* photo_date_extractor.py: standardize_date applied to raw EXIF strings *)

(* The digits of the Bengali script, U+09E6 to U+09EF *)
BengaliZero == 2534

(* n written in the digits that start at the code point zero *)
InScript(s, zero) == [i \in 1..Len(s) |-> IF InClass(s[i], "0", "9") THEN s[i] - 48 + zero ELSE s[i]]

BengaliYear == InScript(Str(<<"2", "0", "1", "5">>), BengaliZero)

(* A raw EXIF date written month/day/year: the fields with one or two      *)
(* digits, a four-digit year, H:M or H:M:S (S = -1: no seconds) and an     *)
(* optional fraction of a second; script says which components are written *)
(* in Bengali digits instead of ASCII digits: none, the year, or all.      *)
Fld(n, padded) == IF padded THEN Pad2(n) ELSE Dec(n)

(* The component c as the input f writes it *)
Written(f, c, year) ==
    IF f.script = "all" \/ (year /\ f.script = "year") THEN InScript(c, BengaliZero) ELSE c

mdy_string(f) ==
    Written(f, Fld(f.m, f.padded), FALSE) \o Str(<<"/">>)
    \o Written(f, Fld(f.d, f.padded), FALSE) \o Str(<<"/">>)
    \o Written(f, Dec(f.y), TRUE) \o Str(<<" ">>)
    \o Written(f, Fld(f.H, f.padded), FALSE) \o Str(<<":">>)
    \o Written(f, Fld(f.M, f.padded), FALSE)
    \o (IF f.S >= 0 THEN Str(<<":">>) \o Written(f, Fld(f.S, f.padded), FALSE) ELSE <<>>)
    \o (IF f.frac THEN Str(<<".", "2", "5">>) ELSE <<>>)

MdyInputs ==
    [m : {3, 12}, d : {9, 29}, y : {1800, 2015, 2100}, H : {7, 19}, M : {5, 46},
     S : -1..MaxSecond, padded : BOOLEAN, frac : BOOLEAN,
     script : {"ascii", "year", "all"}]

IdleInput == [m |-> 1, d |-> 1, y |-> 1800, H |-> 0, M |-> 0, S |-> -1,
              padded |-> TRUE, frac |-> FALSE, script |-> "ascii"]

InitNormalize ==
    /\ date_in \in MdyInputs
    /\ raw_str = mdy_string(date_in)
    /\ std = Raised
    /\ npc = "start"

IdleNormalize ==
    /\ date_in = IdleInput
    /\ raw_str = <<>>
    /\ std = Raised
    /\ npc = "idle"

StandardizeDate ==
    /\ npc = "start"
    /\ std' = standardize_date(raw_str)
    /\ npc' = "done"
    /\ UNCHANGED <<date_in, raw_str, collect_vars, extract_vars, update_vars>>

----------------------------------------------------------------------------
(* photo_date_extractor.py: extract_exif_data *)

DateTags == {"DateTime", "DateTimeOriginal", "DateTimeDigitized"}

NoDates == [t \in DateTags |-> None]

(* lines 91-95: the loop over the EXIF items; the first exception of       *)
(* standardize_date or strptime leaves the loop for the handler of line 96 *)
(* with the entries stored so far.                                         *)
RECURSIVE extract_loop(_, _)
extract_loop(items, ds) ==
    IF items = <<>> THEN ds
    ELSE LET tag_name == Head(items)[1]
             value == Head(items)[2]
         IN  IF tag_name \notin DateTags THEN extract_loop(Tail(items), ds)
             ELSE LET r == standardize_date(value)
                      dt == strptime(r.val, EXIF_DATE_FORMAT)
                  IN  IF ~r.ok THEN ds
                      ELSE IF dt = ValueError THEN ds
                      ELSE extract_loop(Tail(items), [ds EXCEPT ![tag_name] = dt])

extract_exif_data(fails, items) ==
    IF fails THEN NoDates ELSE extract_loop(items, NoDates)

(* Raw tag values of the checked instances: canonical, canonical with a    *)
(* blank and a tab between date and time, reordered around a tab that      *)
(* strptime then rejects, repairable by standardize_date with its year in  *)
(* Bengali digits, zeroed (strptime fails), and text (int() fails).        *)
RawValues ==
    { Str(<<"2","0","1","5",":","0","3",":","2","9"," ","0","9",":","1","0",":","0","0">>),
      Str(<<"2","0","1","5",":","0","3",":","3","0"," ","\t","0","9",":","1","0",":","0","0">>),
      Str(<<"\t","3","/","2","9","/","2","0","1","5"," ","1","9",":","4","6">>),
      Str(<<"3","/","2","9","/">>) \o BengaliYear \o Str(<<" ","1","9",":","4","6">>),
      Str(<<"0","0","0","0",":","0","0",":","0","0"," ","0","0",":","0","0",":","0","0">>),
      Str(<<"a","b","c">>) }

TagNames == DateTags \cup {"Make"}

(* The items of a dict: no tag twice *)
ExifItems ==
    UNION {{items \in [1..n -> TagNames \X RawValues] :
                \A i, j \in 1..n : i # j => items[i][1] # items[j][1]} : n \in 0..MaxTags}

InitExtract ==
    /\ open_fails \in BOOLEAN
    /\ exif_data \in ExifItems
    /\ dates = NoDates
    /\ epc = "start"

IdleExtract ==
    /\ open_fails = FALSE
    /\ exif_data = <<>>
    /\ dates = NoDates
    /\ epc = "idle"

ExtractExifData ==
    /\ epc = "start"
    /\ dates' = extract_exif_data(open_fails, exif_data)
    /\ epc' = "done"
    /\ UNCHANGED <<open_fails, exif_data, collect_vars, normalize_vars, update_vars>>

----------------------------------------------------------------------------
(* photo_date_updater.py *)

(* Python's None where a str is expected *)
NoneStr == <<-2>>

(* str.lower() of one character, Unicode 14.0.0: <<first, last, step,      *)
(* offset>> says that every step-th code point from first to last maps to  *)
(* itself plus offset.  U+0130 alone maps to two characters.               *)
LowerRanges ==
    << <<65, 90, 1, 32>>, <<192, 214, 1, 32>>, <<216, 222, 1, 32>>,
       <<256, 302, 2, 1>>, <<306, 310, 2, 1>>, <<313, 327, 2, 1>>,
       <<330, 374, 2, 1>>, <<376, 376, 1, -121>>, <<377, 381, 2, 1>>,
       <<385, 385, 1, 210>>, <<386, 388, 2, 1>>, <<390, 390, 1, 206>>,
       <<391, 391, 1, 1>>, <<393, 394, 1, 205>>, <<395, 395, 1, 1>>,
       <<398, 398, 1, 79>>, <<399, 399, 1, 202>>, <<400, 400, 1, 203>>,
       <<401, 401, 1, 1>>, <<403, 403, 1, 205>>, <<404, 404, 1, 207>>,
       <<406, 406, 1, 211>>, <<407, 407, 1, 209>>, <<408, 408, 1, 1>>,
       <<412, 412, 1, 211>>, <<413, 413, 1, 213>>, <<415, 415, 1, 214>>,
       <<416, 420, 2, 1>>, <<422, 422, 1, 218>>, <<423, 423, 1, 1>>,
       <<425, 425, 1, 218>>, <<428, 428, 1, 1>>, <<430, 430, 1, 218>>,
       <<431, 431, 1, 1>>, <<433, 434, 1, 217>>, <<435, 437, 2, 1>>,
       <<439, 439, 1, 219>>, <<440, 440, 1, 1>>, <<444, 444, 1, 1>>,
       <<452, 452, 1, 2>>, <<453, 453, 1, 1>>, <<455, 455, 1, 2>>,
       <<456, 456, 1, 1>>, <<458, 458, 1, 2>>, <<459, 475, 2, 1>>,
       <<478, 494, 2, 1>>, <<497, 497, 1, 2>>, <<498, 500, 2, 1>>,
       <<502, 502, 1, -97>>, <<503, 503, 1, -56>>, <<504, 542, 2, 1>>,
       <<544, 544, 1, -130>>, <<546, 562, 2, 1>>, <<570, 570, 1, 10795>>,
       <<571, 571, 1, 1>>, <<573, 573, 1, -163>>, <<574, 574, 1, 10792>>,
       <<577, 577, 1, 1>>, <<579, 579, 1, -195>>, <<580, 580, 1, 69>>,
       <<581, 581, 1, 71>>, <<582, 590, 2, 1>>, <<880, 882, 2, 1>>,
       <<886, 886, 1, 1>>, <<895, 895, 1, 116>>, <<902, 902, 1, 38>>,
       <<904, 906, 1, 37>>, <<908, 908, 1, 64>>, <<910, 911, 1, 63>>,
       <<913, 929, 1, 32>>, <<931, 939, 1, 32>>, <<975, 975, 1, 8>>,
       <<984, 1006, 2, 1>>, <<1012, 1012, 1, -60>>, <<1015, 1015, 1, 1>>,
       <<1017, 1017, 1, -7>>, <<1018, 1018, 1, 1>>, <<1021, 1023, 1, -130>>,
       <<1024, 1039, 1, 80>>, <<1040, 1071, 1, 32>>, <<1120, 1152, 2, 1>>,
       <<1162, 1214, 2, 1>>, <<1216, 1216, 1, 15>>, <<1217, 1229, 2, 1>>,
       <<1232, 1326, 2, 1>>, <<1329, 1366, 1, 48>>, <<4256, 4293, 1, 7264>>,
       <<4295, 4295, 1, 7264>>, <<4301, 4301, 1, 7264>>,
       <<5024, 5103, 1, 38864>>, <<5104, 5109, 1, 8>>,
       <<7312, 7354, 1, -3008>>, <<7357, 7359, 1, -3008>>,
       <<7680, 7828, 2, 1>>, <<7838, 7838, 1, -7615>>, <<7840, 7934, 2, 1>>,
       <<7944, 7951, 1, -8>>, <<7960, 7965, 1, -8>>, <<7976, 7983, 1, -8>>,
       <<7992, 7999, 1, -8>>, <<8008, 8013, 1, -8>>, <<8025, 8031, 2, -8>>,
       <<8040, 8047, 1, -8>>, <<8072, 8079, 1, -8>>, <<8088, 8095, 1, -8>>,
       <<8104, 8111, 1, -8>>, <<8120, 8121, 1, -8>>, <<8122, 8123, 1, -74>>,
       <<8124, 8124, 1, -9>>, <<8136, 8139, 1, -86>>, <<8140, 8140, 1, -9>>,
       <<8152, 8153, 1, -8>>, <<8154, 8155, 1, -100>>, <<8168, 8169, 1, -8>>,
       <<8170, 8171, 1, -112>>, <<8172, 8172, 1, -7>>, <<8184, 8185, 1, -128>>,
       <<8186, 8187, 1, -126>>, <<8188, 8188, 1, -9>>,
       <<8486, 8486, 1, -7517>>, <<8490, 8490, 1, -8383>>,
       <<8491, 8491, 1, -8262>>, <<8498, 8498, 1, 28>>, <<8544, 8559, 1, 16>>,
       <<8579, 8579, 1, 1>>, <<9398, 9423, 1, 26>>, <<11264, 11311, 1, 48>>,
       <<11360, 11360, 1, 1>>, <<11362, 11362, 1, -10743>>,
       <<11363, 11363, 1, -3814>>, <<11364, 11364, 1, -10727>>,
       <<11367, 11371, 2, 1>>, <<11373, 11373, 1, -10780>>,
       <<11374, 11374, 1, -10749>>, <<11375, 11375, 1, -10783>>,
       <<11376, 11376, 1, -10782>>, <<11378, 11378, 1, 1>>,
       <<11381, 11381, 1, 1>>, <<11390, 11391, 1, -10815>>,
       <<11392, 11490, 2, 1>>, <<11499, 11501, 2, 1>>, <<11506, 11506, 1, 1>>,
       <<42560, 42604, 2, 1>>, <<42624, 42650, 2, 1>>, <<42786, 42798, 2, 1>>,
       <<42802, 42862, 2, 1>>, <<42873, 42875, 2, 1>>,
       <<42877, 42877, 1, -35332>>, <<42878, 42886, 2, 1>>,
       <<42891, 42891, 1, 1>>, <<42893, 42893, 1, -42280>>,
       <<42896, 42898, 2, 1>>, <<42902, 42920, 2, 1>>,
       <<42922, 42922, 1, -42308>>, <<42923, 42923, 1, -42319>>,
       <<42924, 42924, 1, -42315>>, <<42925, 42925, 1, -42305>>,
       <<42926, 42926, 1, -42308>>, <<42928, 42928, 1, -42258>>,
       <<42929, 42929, 1, -42282>>, <<42930, 42930, 1, -42261>>,
       <<42931, 42931, 1, 928>>, <<42932, 42946, 2, 1>>,
       <<42948, 42948, 1, -48>>, <<42949, 42949, 1, -42307>>,
       <<42950, 42950, 1, -35384>>, <<42951, 42953, 2, 1>>,
       <<42960, 42960, 1, 1>>, <<42966, 42968, 2, 1>>, <<42997, 42997, 1, 1>>,
       <<65313, 65338, 1, 32>>, <<66560, 66599, 1, 40>>,
       <<66736, 66771, 1, 40>>, <<66928, 66938, 1, 39>>,
       <<66940, 66954, 1, 39>>, <<66956, 66962, 1, 39>>,
       <<66964, 66965, 1, 39>>, <<68736, 68786, 1, 64>>,
       <<71840, 71871, 1, 32>>, <<93760, 93791, 1, 32>>,
       <<125184, 125217, 1, 34>>>>

(* The characters the final-sigma rule looks for (cased) and passes over   *)
(* (case-ignorable), as ranges <<first, last>>; a character of both kinds  *)
(* is passed over.                                                         *)
CasedRanges ==
    << <<65, 90>>, <<97, 122>>, <<170, 170>>, <<181, 181>>, <<186, 186>>,
       <<192, 214>>, <<216, 246>>, <<248, 442>>, <<444, 447>>, <<452, 659>>,
       <<661, 687>>, <<880, 883>>, <<886, 887>>, <<891, 893>>, <<895, 895>>,
       <<902, 902>>, <<904, 906>>, <<908, 908>>, <<910, 929>>, <<931, 1013>>,
       <<1015, 1153>>, <<1162, 1327>>, <<1329, 1366>>, <<1376, 1416>>,
       <<4256, 4293>>, <<4295, 4295>>, <<4301, 4301>>, <<4304, 4346>>,
       <<4349, 4351>>, <<5024, 5109>>, <<5112, 5117>>, <<7296, 7304>>,
       <<7312, 7354>>, <<7357, 7359>>, <<7424, 7467>>, <<7531, 7543>>,
       <<7545, 7578>>, <<7680, 7957>>, <<7960, 7965>>, <<7968, 8005>>,
       <<8008, 8013>>, <<8016, 8023>>, <<8025, 8025>>, <<8027, 8027>>,
       <<8029, 8029>>, <<8031, 8061>>, <<8064, 8116>>, <<8118, 8124>>,
       <<8126, 8126>>, <<8130, 8132>>, <<8134, 8140>>, <<8144, 8147>>,
       <<8150, 8155>>, <<8160, 8172>>, <<8178, 8180>>, <<8182, 8188>>,
       <<8450, 8450>>, <<8455, 8455>>, <<8458, 8467>>, <<8469, 8469>>,
       <<8473, 8477>>, <<8484, 8484>>, <<8486, 8486>>, <<8488, 8488>>,
       <<8490, 8493>>, <<8495, 8500>>, <<8505, 8505>>, <<8508, 8511>>,
       <<8517, 8521>>, <<8526, 8526>>, <<8544, 8575>>, <<8579, 8580>>,
       <<9398, 9449>>, <<11264, 11387>>, <<11390, 11492>>, <<11499, 11502>>,
       <<11506, 11507>>, <<11520, 11557>>, <<11559, 11559>>, <<11565, 11565>>,
       <<42560, 42605>>, <<42624, 42651>>, <<42786, 42863>>, <<42865, 42887>>,
       <<42891, 42894>>, <<42896, 42954>>, <<42960, 42961>>, <<42963, 42963>>,
       <<42965, 42969>>, <<42997, 42998>>, <<43002, 43002>>, <<43824, 43866>>,
       <<43872, 43880>>, <<43888, 43967>>, <<64256, 64262>>, <<64275, 64279>>,
       <<65313, 65338>>, <<65345, 65370>>, <<66560, 66639>>, <<66736, 66771>>,
       <<66776, 66811>>, <<66928, 66938>>, <<66940, 66954>>, <<66956, 66962>>,
       <<66964, 66965>>, <<66967, 66977>>, <<66979, 66993>>, <<66995, 67001>>,
       <<67003, 67004>>, <<68736, 68786>>, <<68800, 68850>>, <<71840, 71903>>,
       <<93760, 93823>>, <<119808, 119892>>, <<119894, 119964>>,
       <<119966, 119967>>, <<119970, 119970>>, <<119973, 119974>>,
       <<119977, 119980>>, <<119982, 119993>>, <<119995, 119995>>,
       <<119997, 120003>>, <<120005, 120069>>, <<120071, 120074>>,
       <<120077, 120084>>, <<120086, 120092>>, <<120094, 120121>>,
       <<120123, 120126>>, <<120128, 120132>>, <<120134, 120134>>,
       <<120138, 120144>>, <<120146, 120485>>, <<120488, 120512>>,
       <<120514, 120538>>, <<120540, 120570>>, <<120572, 120596>>,
       <<120598, 120628>>, <<120630, 120654>>, <<120656, 120686>>,
       <<120688, 120712>>, <<120714, 120744>>, <<120746, 120770>>,
       <<120772, 120779>>, <<122624, 122633>>, <<122635, 122654>>,
       <<125184, 125251>>, <<127280, 127305>>, <<127312, 127337>>,
       <<127344, 127369>>>>

CaseIgnorableRanges ==
    << <<39, 39>>, <<46, 46>>, <<58, 58>>, <<94, 94>>, <<96, 96>>,
       <<168, 168>>, <<173, 173>>, <<175, 175>>, <<180, 180>>, <<183, 184>>,
       <<688, 879>>, <<884, 885>>, <<890, 890>>, <<900, 901>>, <<903, 903>>,
       <<1155, 1161>>, <<1369, 1369>>, <<1375, 1375>>, <<1425, 1469>>,
       <<1471, 1471>>, <<1473, 1474>>, <<1476, 1477>>, <<1479, 1479>>,
       <<1524, 1524>>, <<1536, 1541>>, <<1552, 1562>>, <<1564, 1564>>,
       <<1600, 1600>>, <<1611, 1631>>, <<1648, 1648>>, <<1750, 1757>>,
       <<1759, 1768>>, <<1770, 1773>>, <<1807, 1807>>, <<1809, 1809>>,
       <<1840, 1866>>, <<1958, 1968>>, <<2027, 2037>>, <<2042, 2042>>,
       <<2045, 2045>>, <<2070, 2093>>, <<2137, 2139>>, <<2184, 2184>>,
       <<2192, 2193>>, <<2200, 2207>>, <<2249, 2306>>, <<2362, 2362>>,
       <<2364, 2364>>, <<2369, 2376>>, <<2381, 2381>>, <<2385, 2391>>,
       <<2402, 2403>>, <<2417, 2417>>, <<2433, 2433>>, <<2492, 2492>>,
       <<2497, 2500>>, <<2509, 2509>>, <<2530, 2531>>, <<2558, 2558>>,
       <<2561, 2562>>, <<2620, 2620>>, <<2625, 2626>>, <<2631, 2632>>,
       <<2635, 2637>>, <<2641, 2641>>, <<2672, 2673>>, <<2677, 2677>>,
       <<2689, 2690>>, <<2748, 2748>>, <<2753, 2757>>, <<2759, 2760>>,
       <<2765, 2765>>, <<2786, 2787>>, <<2810, 2815>>, <<2817, 2817>>,
       <<2876, 2876>>, <<2879, 2879>>, <<2881, 2884>>, <<2893, 2893>>,
       <<2901, 2902>>, <<2914, 2915>>, <<2946, 2946>>, <<3008, 3008>>,
       <<3021, 3021>>, <<3072, 3072>>, <<3076, 3076>>, <<3132, 3132>>,
       <<3134, 3136>>, <<3142, 3144>>, <<3146, 3149>>, <<3157, 3158>>,
       <<3170, 3171>>, <<3201, 3201>>, <<3260, 3260>>, <<3263, 3263>>,
       <<3270, 3270>>, <<3276, 3277>>, <<3298, 3299>>, <<3328, 3329>>,
       <<3387, 3388>>, <<3393, 3396>>, <<3405, 3405>>, <<3426, 3427>>,
       <<3457, 3457>>, <<3530, 3530>>, <<3538, 3540>>, <<3542, 3542>>,
       <<3633, 3633>>, <<3636, 3642>>, <<3654, 3662>>, <<3761, 3761>>,
       <<3764, 3772>>, <<3782, 3782>>, <<3784, 3789>>, <<3864, 3865>>,
       <<3893, 3893>>, <<3895, 3895>>, <<3897, 3897>>, <<3953, 3966>>,
       <<3968, 3972>>, <<3974, 3975>>, <<3981, 3991>>, <<3993, 4028>>,
       <<4038, 4038>>, <<4141, 4144>>, <<4146, 4151>>, <<4153, 4154>>,
       <<4157, 4158>>, <<4184, 4185>>, <<4190, 4192>>, <<4209, 4212>>,
       <<4226, 4226>>, <<4229, 4230>>, <<4237, 4237>>, <<4253, 4253>>,
       <<4348, 4348>>, <<4957, 4959>>, <<5906, 5908>>, <<5938, 5939>>,
       <<5970, 5971>>, <<6002, 6003>>, <<6068, 6069>>, <<6071, 6077>>,
       <<6086, 6086>>, <<6089, 6099>>, <<6103, 6103>>, <<6109, 6109>>,
       <<6155, 6159>>, <<6211, 6211>>, <<6277, 6278>>, <<6313, 6313>>,
       <<6432, 6434>>, <<6439, 6440>>, <<6450, 6450>>, <<6457, 6459>>,
       <<6679, 6680>>, <<6683, 6683>>, <<6742, 6742>>, <<6744, 6750>>,
       <<6752, 6752>>, <<6754, 6754>>, <<6757, 6764>>, <<6771, 6780>>,
       <<6783, 6783>>, <<6823, 6823>>, <<6832, 6862>>, <<6912, 6915>>,
       <<6964, 6964>>, <<6966, 6970>>, <<6972, 6972>>, <<6978, 6978>>,
       <<7019, 7027>>, <<7040, 7041>>, <<7074, 7077>>, <<7080, 7081>>,
       <<7083, 7085>>, <<7142, 7142>>, <<7144, 7145>>, <<7149, 7149>>,
       <<7151, 7153>>, <<7212, 7219>>, <<7222, 7223>>, <<7288, 7293>>,
       <<7376, 7378>>, <<7380, 7392>>, <<7394, 7400>>, <<7405, 7405>>,
       <<7412, 7412>>, <<7416, 7417>>, <<7468, 7530>>, <<7544, 7544>>,
       <<7579, 7679>>, <<8125, 8125>>, <<8127, 8129>>, <<8141, 8143>>,
       <<8157, 8159>>, <<8173, 8175>>, <<8189, 8190>>, <<8203, 8207>>,
       <<8216, 8217>>, <<8228, 8228>>, <<8231, 8231>>, <<8234, 8238>>,
       <<8288, 8292>>, <<8294, 8303>>, <<8305, 8305>>, <<8319, 8319>>,
       <<8336, 8348>>, <<8400, 8432>>, <<11388, 11389>>, <<11503, 11505>>,
       <<11631, 11631>>, <<11647, 11647>>, <<11744, 11775>>, <<11823, 11823>>,
       <<12293, 12293>>, <<12330, 12333>>, <<12337, 12341>>, <<12347, 12347>>,
       <<12441, 12446>>, <<12540, 12542>>, <<40981, 40981>>, <<42232, 42237>>,
       <<42508, 42508>>, <<42607, 42610>>, <<42612, 42621>>, <<42623, 42623>>,
       <<42652, 42655>>, <<42736, 42737>>, <<42752, 42785>>, <<42864, 42864>>,
       <<42888, 42890>>, <<42994, 42996>>, <<43000, 43001>>, <<43010, 43010>>,
       <<43014, 43014>>, <<43019, 43019>>, <<43045, 43046>>, <<43052, 43052>>,
       <<43204, 43205>>, <<43232, 43249>>, <<43263, 43263>>, <<43302, 43309>>,
       <<43335, 43345>>, <<43392, 43394>>, <<43443, 43443>>, <<43446, 43449>>,
       <<43452, 43453>>, <<43471, 43471>>, <<43493, 43494>>, <<43561, 43566>>,
       <<43569, 43570>>, <<43573, 43574>>, <<43587, 43587>>, <<43596, 43596>>,
       <<43632, 43632>>, <<43644, 43644>>, <<43696, 43696>>, <<43698, 43700>>,
       <<43703, 43704>>, <<43710, 43711>>, <<43713, 43713>>, <<43741, 43741>>,
       <<43756, 43757>>, <<43763, 43764>>, <<43766, 43766>>, <<43867, 43871>>,
       <<43881, 43883>>, <<44005, 44005>>, <<44008, 44008>>, <<44013, 44013>>,
       <<64286, 64286>>, <<64434, 64450>>, <<65024, 65039>>, <<65043, 65043>>,
       <<65056, 65071>>, <<65106, 65106>>, <<65109, 65109>>, <<65279, 65279>>,
       <<65287, 65287>>, <<65294, 65294>>, <<65306, 65306>>, <<65342, 65342>>,
       <<65344, 65344>>, <<65392, 65392>>, <<65438, 65439>>, <<65507, 65507>>,
       <<65529, 65531>>, <<66045, 66045>>, <<66272, 66272>>, <<66422, 66426>>,
       <<67456, 67461>>, <<67463, 67504>>, <<67506, 67514>>, <<68097, 68099>>,
       <<68101, 68102>>, <<68108, 68111>>, <<68152, 68154>>, <<68159, 68159>>,
       <<68325, 68326>>, <<68900, 68903>>, <<69291, 69292>>, <<69446, 69456>>,
       <<69506, 69509>>, <<69633, 69633>>, <<69688, 69702>>, <<69744, 69744>>,
       <<69747, 69748>>, <<69759, 69761>>, <<69811, 69814>>, <<69817, 69818>>,
       <<69821, 69821>>, <<69826, 69826>>, <<69837, 69837>>, <<69888, 69890>>,
       <<69927, 69931>>, <<69933, 69940>>, <<70003, 70003>>, <<70016, 70017>>,
       <<70070, 70078>>, <<70089, 70092>>, <<70095, 70095>>, <<70191, 70193>>,
       <<70196, 70196>>, <<70198, 70199>>, <<70206, 70206>>, <<70367, 70367>>,
       <<70371, 70378>>, <<70400, 70401>>, <<70459, 70460>>, <<70464, 70464>>,
       <<70502, 70508>>, <<70512, 70516>>, <<70712, 70719>>, <<70722, 70724>>,
       <<70726, 70726>>, <<70750, 70750>>, <<70835, 70840>>, <<70842, 70842>>,
       <<70847, 70848>>, <<70850, 70851>>, <<71090, 71093>>, <<71100, 71101>>,
       <<71103, 71104>>, <<71132, 71133>>, <<71219, 71226>>, <<71229, 71229>>,
       <<71231, 71232>>, <<71339, 71339>>, <<71341, 71341>>, <<71344, 71349>>,
       <<71351, 71351>>, <<71453, 71455>>, <<71458, 71461>>, <<71463, 71467>>,
       <<71727, 71735>>, <<71737, 71738>>, <<71995, 71996>>, <<71998, 71998>>,
       <<72003, 72003>>, <<72148, 72151>>, <<72154, 72155>>, <<72160, 72160>>,
       <<72193, 72202>>, <<72243, 72248>>, <<72251, 72254>>, <<72263, 72263>>,
       <<72273, 72278>>, <<72281, 72283>>, <<72330, 72342>>, <<72344, 72345>>,
       <<72752, 72758>>, <<72760, 72765>>, <<72767, 72767>>, <<72850, 72871>>,
       <<72874, 72880>>, <<72882, 72883>>, <<72885, 72886>>, <<73009, 73014>>,
       <<73018, 73018>>, <<73020, 73021>>, <<73023, 73029>>, <<73031, 73031>>,
       <<73104, 73105>>, <<73109, 73109>>, <<73111, 73111>>, <<73459, 73460>>,
       <<78896, 78904>>, <<92912, 92916>>, <<92976, 92982>>, <<92992, 92995>>,
       <<94031, 94031>>, <<94095, 94111>>, <<94176, 94177>>, <<94179, 94180>>,
       <<110576, 110579>>, <<110581, 110587>>, <<110589, 110590>>,
       <<113821, 113822>>, <<113824, 113827>>, <<118528, 118573>>,
       <<118576, 118598>>, <<119143, 119145>>, <<119155, 119170>>,
       <<119173, 119179>>, <<119210, 119213>>, <<119362, 119364>>,
       <<121344, 121398>>, <<121403, 121452>>, <<121461, 121461>>,
       <<121476, 121476>>, <<121499, 121503>>, <<121505, 121519>>,
       <<122880, 122886>>, <<122888, 122904>>, <<122907, 122913>>,
       <<122915, 122916>>, <<122918, 122922>>, <<123184, 123197>>,
       <<123566, 123566>>, <<123628, 123631>>, <<125136, 125142>>,
       <<125252, 125259>>, <<127995, 127999>>, <<917505, 917505>>,
       <<917536, 917631>>, <<917760, 917999>>>>

InRanges(c, rs) == \E k \in 1..Len(rs) : c >= rs[k][1] /\ c <= rs[k][2]

(* Is the capital sigma at position i of s final: after a cased character  *)
(* and not before one, case-ignorable characters passed over?              *)
FinalSigma(s, i) ==
    /\ \E j \in 1..(i - 1) :
          /\ InRanges(s[j], CasedRanges)
          /\ \A k \in (j + 1)..(i - 1) : InRanges(s[k], CaseIgnorableRanges)
    /\ ~\E j \in (i + 1)..Len(s) :
          /\ InRanges(s[j], CasedRanges)
          /\ \A k \in (i + 1)..(j - 1) : InRanges(s[k], CaseIgnorableRanges)

LowerChar(s, i) ==
    LET c == s[i]
    IN  IF c >= 97 /\ c <= 122 THEN <<c>>
        ELSE IF c = 931 THEN (IF FinalSigma(s, i) THEN <<962>> ELSE <<963>>)
        ELSE IF c = 304 THEN <<105, 775>>
        ELSE IF \E k \in 1..Len(LowerRanges) :
                    /\ c >= LowerRanges[k][1] /\ c <= LowerRanges[k][2]
                    /\ (c - LowerRanges[k][1]) % LowerRanges[k][3] = 0
        THEN <<c + LowerRanges[CHOOSE k \in 1..Len(LowerRanges) :
                        /\ c >= LowerRanges[k][1] /\ c <= LowerRanges[k][2]
                        /\ (c - LowerRanges[k][1]) % LowerRanges[k][3] = 0][4]>>
        ELSE <<c>>

RECURSIVE LowerFrom(_, _)
LowerFrom(s, i) == IF i > Len(s) THEN <<>> ELSE LowerChar(s, i) \o LowerFrom(s, i + 1)

(* s.lower() *)
Lower(s) == LowerFrom(s, 1)

(* s[:n] *)
Prefix(s, n) == SubSeq(s, 1, IF Len(s) < n THEN Len(s) ELSE n)

LastIndex(s, c) ==
    IF \E i \in 1..Len(s) : s[i] = c
    THEN CHOOSE i \in 1..Len(s) : s[i] = c /\ \A j \in (i + 1)..Len(s) : s[j] # c
    ELSE 0

(* os.path.join(a, b) on POSIX *)
os_path_join(a, b) ==
    IF b # <<>> /\ b[1] = Ord["/"] THEN b
    ELSE IF a = <<>> \/ a[Len(a)] = Ord["/"] THEN a \o b
    ELSE a \o <<Ord["/"]>> \o b

(* os.path.splitext(p)[1]: from the last dot of the base name, unless only *)
(* dots precede it there                                                   *)
splitext_ext(p) ==
    LET sep == LastIndex(p, Ord["/"])
        dot == LastIndex(p, Ord["."])
    IN  IF dot > sep /\ \E i \in (sep + 1)..(dot - 1) : p[i] # Ord["."]
        THEN SubSeq(p, dot, Len(p))
        ELSE <<>>

(* What the file system holds under the path of a folder *)
Directory == [dir |-> TRUE]

(* A file system is a function from paths to what they hold.  Its paths   *)
(* are written from the root ("/..."), with single slashes and without    *)
(* "." and "..".  The folders above a path exist, and so do the working   *)
(* directory of the program, cwd, which os.getcwd() writes in the same    *)
(* way, and the folders above it.  There are no links.                    *)
Components(p) == Split(p, {Ord["/"]})

Dot == Str(<<".">>)

DotDot == Str(<<".", ".">>)

(* The path from the root with the components cs *)
PathOf(cs) == <<Ord["/"]>> \o Join(cs, <<Ord["/"]>>)

(* The components of a path from the root that is written as the paths of *)
(* the file system are                                                    *)
Named(p) == SelectSeq(Components(p), LAMBDA c : c # <<>>)

(* Is there a folder under the components cs: the root, a folder recorded *)
(* in files, the working directory, or a folder above one of them or      *)
(* above a file?                                                          *)
IsFolder(files, cwd, cs) ==
    \/ cs = <<>>
    \/ \E d \in {PathOf(cs)} :
          \/ d = cwd
          \/ d \in DOMAIN files /\ files[d] = Directory
          \/ \E q \in DOMAIN files \cup {cwd} :
                /\ Len(q) > Len(d)
                /\ SubSeq(q, 1, Len(d)) = d
                /\ q[Len(d) + 1] = Ord["/"]

NotFound == [ok |-> FALSE, cs |-> <<>>]

(* The walk of the kernel from the folder cur along the components rest:  *)
(* where it arrives, or NotFound when a component is missing or stands    *)
(* below something that is no folder.  ".." of the root is the root.      *)
RECURSIVE Walk(_, _, _, _)
Walk(files, cwd, cur, rest) ==
    IF rest = <<>> THEN [ok |-> TRUE, cs |-> cur]
    ELSE IF ~IsFolder(files, cwd, cur) THEN NotFound
    ELSE LET c == Head(rest)
         IN  IF c = <<>> \/ c = Dot THEN Walk(files, cwd, cur, Tail(rest))
             ELSE IF c = DotDot
             THEN Walk(files, cwd,
                       IF cur = <<>> THEN cur ELSE SubSeq(cur, 1, Len(cur) - 1),
                       Tail(rest))
             ELSE IF \/ PathOf(cur \o <<c>>) \in DOMAIN files
                     \/ IsFolder(files, cwd, cur \o <<c>>)
             THEN Walk(files, cwd, cur \o <<c>>, Tail(rest))
             ELSE NotFound

(* Bytes of the UTF-8 encoding of a path, as os.fsencode makes it: one    *)
(* to four for a character, one for a surrogate that escapes a byte        *)
Utf8Bytes(p) ==
    LET more(n) == Cardinality({i \in 1..Len(p) :
                        p[i] >= n /\ ~(p[i] >= 56448 /\ p[i] <= 56575)})
    IN  Len(p) + more(128) + more(2048) + more(65536)

(* Can os.stat look the path up at all: it is not empty, has no NUL, no    *)
(* surrogate that os.fsencode cannot encode, and is shorter than PATH_MAX  *)
Statable(p) ==
    /\ p # <<>>
    /\ \A i \in 1..Len(p) :
          /\ p[i] # 0
          /\ ~(p[i] >= 55296 /\ p[i] <= 57343 /\ ~(p[i] >= 56448 /\ p[i] <= 56575))
    /\ (4 * Len(p) < PATH_MAX \/ Utf8Bytes(p) < PATH_MAX)

(* What os.stat(p) finds: the path of the file system it arrives at, from *)
(* the root for a path that begins with a slash and from the working      *)
(* directory for any other                                                *)
Lookup(files, cwd, p) ==
    IF ~Statable(p) THEN NotFound
    ELSE Walk(files, cwd, IF p[1] = Ord["/"] THEN <<>> ELSE Named(cwd), Components(p))

(* The path of the file system at which the lookup r arrived *)
KeyOf(r) == PathOf(r.cs)

(* Is p, in any spelling, the path of a file, which piexif.load and      *)
(* Image.open can open?                                                 *)
IsFile(files, cwd, p) ==
    \E r \in {Lookup(files, cwd, p)} :
        /\ r.ok
        /\ KeyOf(r) \in DOMAIN files
        /\ files[KeyOf(r)] # Directory

(* os.path.exists(p): true of files and of folders *)
os_path_exists(files, cwd, p) == Lookup(files, cwd, p).ok

DATE_FORMATS ==
    << <<"%Y", "-", "%m", "-", "%d", " ", "%H", ":", "%M", ":", "%S">>,
       <<"%Y", "-", "%m", "-", "%d", " ", "%H", ":", "%M">>,
       <<"%m", "/", "%d", "/", "%Y", " ", "%H", ":", "%M", ":", "%S">>,
       <<"%m", "/", "%d", "/", "%Y", " ", "%H", ":", "%M">> >>

normalize_accepts_all(date) == strftime_exif(<<2015, 3, 29, 9, 10, 0, 0>>)

(* normalize_date: the first format that parses, re-formatted; else None *)
normalize_date(date) ==
    IF \E k \in 1..Len(DATE_FORMATS) : strptime(date, DATE_FORMATS[k]) # ValueError
    THEN strftime_exif(strptime(date,
            DATE_FORMATS[CHOOSE k \in 1..Len(DATE_FORMATS) :
                /\ strptime(date, DATE_FORMATS[k]) # ValueError
                /\ \A j \in 1..(k - 1) : strptime(date, DATE_FORMATS[j]) = ValueError]))
    ELSE NoneStr

(* The EXIF content of a file: DateTimeOriginal (dto) and DateTimeDigitized *)
(* (dtd) of the Exif IFD, which piexif reads and writes as                  *)
(* exif_dict['Exif'][...], and the entries under the same two tag numbers   *)
(* at the top level of PIL's Exif object, which set_exif_png_date reads and *)
(* writes; getexif: whether the opened image object has _getexif.  A        *)
(* missing entry is NoneStr.                                                *)
write_digitized_only(f, sd) == [f EXCEPT !.exif.dtd = sd]

write_exif(f, sd) == [f EXCEPT !.exif.dto = sd, !.exif.dtd = sd]

write_top_level(f, sd) == [f EXCEPT !.top.dto = sd, !.top.dtd = sd]

already_current_whole_value(current_date, sd) ==
    /\ current_date # NoneStr
    /\ current_date # <<>>
    /\ current_date = sd

(* lines 46-48 and 83-85 *)
already_current(current_date, sd) ==
    /\ current_date # NoneStr
    /\ current_date # <<>>
    /\ Prefix(current_date, 10) = Prefix(sd, 10)

(* set_exif_date; fault: "read" if piexif.load raises, "write" if          *)
(* piexif.dump or piexif.insert raises                                     *)
set_exif_date(f, sd, fault) ==
    IF fault = "read" THEN [file |-> f, outcome |-> "error"]
    ELSE IF already_current(f.exif.dto, sd) THEN [file |-> f, outcome |-> "already"]
    ELSE IF fault = "write" THEN [file |-> f, outcome |-> "error"]
    ELSE [file |-> write_exif(f, sd), outcome |-> "written"]

(* set_exif_png_date; fault: "read" if Image.open or img.load raises,      *)
(* "write" if img.save raises                                              *)
set_exif_png_date(f, sd, fault) ==
    IF fault = "read" THEN [file |-> f, outcome |-> "error"]
    ELSE IF ~f.getexif THEN [file |-> f, outcome |-> "noexif"]
    ELSE IF already_current(f.top.dto, sd) THEN [file |-> f, outcome |-> "already"]
    ELSE IF fault = "write" THEN [file |-> f, outcome |-> "error"]
    ELSE [file |-> write_top_level(f, sd), outcome |-> "written"]

supported_all == {Str(<<".", "j", "p", "g">>), Str(<<".", "j", "p", "e", "g">>),
                  Str(<<".", "w", "e", "b", "p">>), Str(<<".", "t", "i", "f", "f">>),
                  Str(<<".", "g", "i", "f">>)}

supported_by_piexif == {Str(<<".", "j", "p", "g">>), Str(<<".", "j", "p", "e", "g">>),
                        Str(<<".", "w", "e", "b", "p">>), Str(<<".", "t", "i", "f", "f">>)}

(* Inputs of the checked instances *)
Folder == Str(<<"p">>)

FileNames ==
    { Str(<<"a", ".", "j", "p", "g">>), Str(<<"b", ".", "P", "N", "G">>),
      Str(<<"c", ".", "h", "e", "i", "c">>), Str(<<"d", ".", "g", "i", "f">>),
      Str(<<"e", ".", "t", "i", "f", "f">>), Str(<<"f", ".", "W", "e", "b", "P">>),
      Str(<<"g", ".", "J", "P", "E", "G">>) }

(* The Set Date cells: missing, empty, one of each of the four formats   *)
(* (the month/day/year one with its year in Bengali digits, one with a   *)
(* tab for the blank) and the EXIF form, which none of them accepts.     *)
IsoDate ==
    Str(<<"2","0","1","5","-","0","3","-","2","9"," ","0","9",":","1","0",":","0","0">>)

SlashDate == Str(<<"3","/","2","9","/">>) \o BengaliYear \o Str(<<" ","9",":","1","0">>)

TabDate == Str(<<"2","0","1","5","-","0","3","-","3","0","\t","0","9",":","1","0">>)

ExifDate ==
    Str(<<"2","0","1","5",":","0","3",":","2","9"," ","0","9",":","1","0",":","0","0">>)

SetDates == {NoneStr, <<>>, IsoDate, SlashDate, TabDate, ExifDate}

(* The working directory of the program *)
WorkingDirectory == Str(<<"/", "w">>)

(* The folder of the files on disk, which the Folder cell names from the  *)
(* working directory                                                      *)
FolderOnDisk == os_path_join(WorkingDirectory, Folder)

Paths == {os_path_join(FolderOnDisk, n) : n \in FileNames}

(* Other spellings of the folder: through ".", through the name of the    *)
(* working directory, and from the root                                   *)
OtherFolders ==
    { Str(<<".", "/", "p">>), Str(<<".", ".", "/", "w", "/", "p">>), FolderOnDisk }

(* The rows of the CSV: every Set Date cell for a file of each writer,     *)
(* an accepted and a rejected Set Date for every file name and for a       *)
(* missing and an empty Filename cell, a short row without Set Date, and   *)
(* one file under the other spellings of the folder.                       *)
Rows ==
    [Folder : {Folder},
     Filename : {Str(<<"a", ".", "j", "p", "g">>), Str(<<"b", ".", "P", "N", "G">>)},
     SetDate : SetDates]
    \cup [Folder : {Folder}, Filename : FileNames \cup {NoneStr, <<>>},
          SetDate : {IsoDate, ExifDate}]
    \cup [Folder : {Folder}, Filename : {NoneStr}, SetDate : {NoneStr}]
    \cup [Folder : OtherFolders, Filename : {Str(<<"a", ".", "j", "p", "g">>)},
          SetDate : {IsoDate}]
    \cup [Folder : {Str(<<".", "/", "p">>)}, Filename : {Str(<<"a", ".", "j", "p", "g">>)},
          SetDate : {SlashDate}]

(* The paths of the rows, as line 128 joins them *)
RowPaths ==
    {os_path_join(r.Folder, r.Filename) :
        r \in {x \in Rows : x.Folder # NoneStr /\ x.Filename # NoneStr}}

ExifValues ==
    { NoneStr,
      Str(<<"2","0","1","5",":","0","3",":","2","9"," ","1","9",":","4","6",":","0","0">>),
      Str(<<"2","0","1","4",":","0","1",":","0","1"," ","0","0",":","0","0",":","0","0">>) }

(* DateTimeOriginal and DateTimeDigitized of the files of the checked     *)
(* instances: both missing, both present on different days, and           *)
(* DateTimeOriginal alone.                                                *)
DatePairs ==
    { [dto |-> NoneStr, dtd |-> NoneStr],
      [dto |-> Str(<<"2","0","1","5",":","0","3",":","2","9"," ","1","9",":","4","6",":","0","0">>),
       dtd |-> Str(<<"2","0","1","4",":","0","1",":","0","1"," ","0","0",":","0","0",":","0","0">>)],
      [dto |-> Str(<<"2","0","1","4",":","0","1",":","0","1"," ","0","0",":","0","0",":","0","0">>),
       dtd |-> NoneStr] }

FileContents ==
    {c \in [exif : [dto : ExifValues, dtd : ExifValues],
            top : [dto : {NoneStr}, dtd : {NoneStr}],
            getexif : BOOLEAN] :
        c.exif \in DatePairs}

(* Only a file named .png is opened with PIL, so only there the image      *)
(* object may lack _getexif.                                               *)
(* A file system with no file has no folder or the empty folder.           *)
FileSystems ==
    UNION {{f \in [S -> FileContents] :
                \A q \in S : Lower(splitext_ext(q)) # Str(<<".", "p", "n", "g">>) => f[q].getexif}
           : S \in {T \in SUBSET Paths : Cardinality(T) <= MaxFiles}}
    \cup {[q \in {FolderOnDisk} |-> Directory]}

(* normalize_date on the Set Date cells and the lower-cased extension of   *)
(* the paths of the checked instances, computed once                       *)
NormalizedSetDate == [d \in SetDates \ {NoneStr, <<>>} |-> normalize_date(d)]

LowerExtension == [q \in RowPaths |-> Lower(splitext_ext(q))]

(* The row after the writer name returned r *)
written(files, file_path, key, valid_date, name, r) ==
    [files |-> [files EXCEPT ![key] = r.file], called |-> name, outcome |-> r.outcome,
     path |-> file_path, file |-> key, target |-> valid_date]

(* Lines 140-148: the writer that the extension ext selects runs on what  *)
(* file_path names, the file key or a folder.                             *)
dispatch(files, file_path, key, valid_date, ext, fault) ==
    IF ext = Str(<<".", "h", "e", "i", "c">>)
    THEN [files |-> files, called |-> "none", outcome |-> "heic",
          path |-> file_path, file |-> NoneStr, target |-> NoneStr]
    ELSE IF ext # Str(<<".", "p", "n", "g">>) /\ ext \notin supported_by_piexif
    THEN [files |-> files, called |-> "none", outcome |-> "unsupported",
          path |-> file_path, file |-> NoneStr, target |-> NoneStr]
    ELSE IF ~(key \in DOMAIN files /\ files[key] # Directory)
    THEN (* a folder cannot be opened: the writer logs the error *)
         [files |-> files,
          called |-> IF ext = Str(<<".", "p", "n", "g">>)
                     THEN "set_exif_png_date" ELSE "set_exif_date",
          outcome |-> "error", path |-> file_path, file |-> key, target |-> valid_date]
    ELSE written(files, file_path, key, valid_date,
                 IF ext = Str(<<".", "p", "n", "g">>)
                 THEN "set_exif_png_date" ELSE "set_exif_date",
                 IF ext = Str(<<".", "p", "n", "g">>)
                 THEN set_exif_png_date(files[key], valid_date, fault)
                 ELSE set_exif_date(files[key], valid_date, fault))

(* Lines 131-152 for a row with a Set Date: found is what                 *)
(* os.path.exists(file_path) finds, whatever the spelling of file_path.   *)
gates(files, file_path, found, valid_date, fault) ==
    IF ~found.ok
    THEN [files |-> files, called |-> "none", outcome |-> "not_found",
          path |-> file_path, file |-> NoneStr, target |-> NoneStr]
    ELSE IF valid_date = NoneStr
    THEN [files |-> files, called |-> "none", outcome |-> "invalid_date",
          path |-> file_path, file |-> NoneStr, target |-> NoneStr]
    ELSE dispatch(files, file_path, KeyOf(found), valid_date,
                  IF file_path \in DOMAIN LowerExtension
                  THEN LowerExtension[file_path] ELSE Lower(splitext_ext(file_path)),
                  fault)

handle_path(files, cwd, file_path, set_d, fault) ==
    gates(files, file_path, Lookup(files, cwd, file_path),
          IF set_d \in DOMAIN NormalizedSetDate
          THEN NormalizedSetDate[set_d] ELSE normalize_date(set_d),
          fault)

(* The body of the loop of process_csv for one row (lines 120-152):        *)
(* the files afterwards, the writer called, and how the row ended.         *)
(* "abort": line 128 raises TypeError for a None field, which only the     *)
(* handler of line 155, outside the loop, catches.                         *)
handle_row(files, cwd, row, fault) ==
    IF row.SetDate = NoneStr \/ row.SetDate = <<>>
    THEN [files |-> files, called |-> "none", outcome |-> "no_set_date",
          path |-> NoneStr, file |-> NoneStr, target |-> NoneStr]
    ELSE IF row.Folder = NoneStr \/ row.Filename = NoneStr
    THEN [files |-> files, called |-> "none", outcome |-> "abort",
          path |-> NoneStr, file |-> NoneStr, target |-> NoneStr]
    ELSE handle_path(files, cwd, os_path_join(row.Folder, row.Filename), row.SetDate, fault)

(* The failures of the checked instances *)
Faults == {"none", "read", "write"}

(* The failures a row can meet: none unless it reaches a writer *)
FaultsOf(r0) == IF r0.called = "none" THEN {"none"} ELSE Faults

(* The content recorded for a row that names no file on disk *)
NoFile == [exif |-> [dto |-> NoneStr, dtd |-> NoneStr],
           top |-> [dto |-> NoneStr, dtd |-> NoneStr],
           getexif |-> FALSE]

NoRow == [row |-> [Folder |-> Folder, Filename |-> NoneStr, SetDate |-> NoneStr],
          called |-> "none", outcome |-> "none", path |-> NoneStr, file |-> NoneStr,
          target |-> NoneStr, changed |-> {}, repeat |-> "none", prev |-> NoneStr,
          before |-> NoFile]

InitUpdate ==
    /\ fs \in FileSystems
    /\ upc = "rows"
    /\ total \in 1..MaxRows
    /\ remaining = total
    /\ noutcomes = 0
    /\ last = NoRow

IdleUpdate ==
    /\ fs = <<>>
    /\ upc = "idle"
    /\ total = 0
    /\ remaining = 0
    /\ noutcomes = 0
    /\ last = NoRow

(* The row before called the same writer on the same file, under whatever *)
(* spelling of its path, with the same target date.                       *)
Repeats(r) ==
    /\ r.called # "none"
    /\ last.called = r.called
    /\ last.file = r.file
    /\ last.target = r.target

(* One iteration of the loop of process_csv over the next row of the CSV; *)
(* last records the row, the file before it, the files it changed, and,   *)
(* for a repeated call, how the call before ended and how it spelt the    *)
(* path.                                                                  *)
ProcessRow ==
    /\ upc = "rows"
    /\ remaining > 0
    /\ \E row \in Rows : \E r0 \in {handle_row(fs, WorkingDirectory, row, "none")} :
          \E fault \in FaultsOf(r0) :
          \E r \in {IF fault = "none" THEN r0
                     ELSE handle_row(fs, WorkingDirectory, row, fault)} :
              /\ fs' = r.files
              /\ remaining' = remaining - 1
              /\ upc' = IF r.outcome = "abort" THEN "aborted" ELSE "rows"
              /\ noutcomes' = IF r.outcome = "abort" THEN noutcomes ELSE noutcomes + 1
              /\ last' = [row |-> row, called |-> r.called, outcome |-> r.outcome,
                          path |-> r.path, file |-> r.file, target |-> r.target,
                          changed |-> {q \in DOMAIN fs : r.files[q] # fs[q]},
                          before |-> IF r.file \in DOMAIN fs /\ fs[r.file] # Directory
                                     THEN fs[r.file] ELSE NoFile,
                          repeat |-> IF Repeats(r) THEN last.outcome ELSE "none",
                          prev |-> IF Repeats(r) THEN last.path ELSE NoneStr]
    /\ UNCHANGED <<total, collect_vars, normalize_vars, extract_vars>>

(* The reader is exhausted: process_csv returns *)
FinishCsv ==
    /\ upc = "rows"
    /\ remaining = 0
    /\ upc' = "done"
    /\ UNCHANGED <<fs, total, remaining, noutcomes, last,
                   collect_vars, normalize_vars, extract_vars>>

----------------------------------------------------------------------------
(* Specifications *)

Init == InitCollect /\ IdleNormalize /\ IdleExtract /\ IdleUpdate

Next == CollectImageMetadata

Spec == Init /\ [][Next]_vars

InitN == IdleCollect /\ InitNormalize /\ IdleExtract /\ IdleUpdate

NextN == StandardizeDate

SpecNormalize == InitN /\ [][NextN]_vars

InitE == IdleCollect /\ IdleNormalize /\ InitExtract /\ IdleUpdate

NextE == ExtractExifData

SpecExtract == InitE /\ [][NextE]_vars

InitU == IdleCollect /\ IdleNormalize /\ IdleExtract /\ InitUpdate

NextU == ProcessRow \/ FinishCsv

SpecUpdate == InitU /\ [][NextU]_vars

----------------------------------------------------------------------------
(* Claims about the reconciliation (checked under Spec) *)

Exif == "EXIF DateTimeOriginal"

Modified == "File Modified Date"

Present(c) == {c[k] : k \in Slots} \ {None}

Sane(dt) == dt # None /\ Year(dt) >= 1800 /\ Year(dt) <= 2100

(* The chronologically earliest member of a non-empty set S of datetimes. *)
IsEarliestOf(x, S) == x \in S /\ \A y \in S : ~DateLess(y, x)

SameDayOtherTime(a, b) ==
    a # None /\ b # None /\ DateOf(a) = DateOf(b) /\ TimeOf(a) # TimeOf(b)

(* C1: the Set Date of a finished row is never a value whose year lies      *)
(* outside [1800, 2100], whichever candidates are out of range.             *)
C1_SetDateSane ==
    cpc = "done" => (set_date = None \/ (Year(set_date) >= 1800 /\ Year(set_date) <= 2100))

(* C1 witness: a finished row whose chronologically earliest candidate is   *)
(* out of range, whose file-modified time is out of range too, and which    *)
(* still got a Set Date.                                                    *)
C1_Witness ==
    /\ cpc = "done"
    /\ set_date # None
    /\ cand[Modified] # None /\ Year(cand[Modified]) > 2100
    /\ \E x \in Present(cand) : IsEarliestOf(x, Present(cand)) /\ Year(x) < 1800

(* C2: when every present candidate is sane and neither EXIF                *)
(* DateTimeOriginal nor File Modified is on the earliest candidate's day    *)
(* with another time-of-day, Set Date is the minimum of the present         *)
(* candidates.                                                              *)
C2_EarliestWins ==
    (/\ cpc = "done"
     /\ Present(cand) # {}
     /\ \A x \in Present(cand) : Sane(x)
     /\ \A m \in Present(cand) : IsEarliestOf(m, Present(cand)) =>
            /\ ~SameDayOtherTime(cand[Exif], m)
            /\ ~SameDayOtherTime(cand[Modified], m))
    => IsEarliestOf(set_date, Present(cand))

(* C2 witness: a finished all-sane row with candidates on two different     *)
(* days, EXIF DateTimeOriginal and File Modified both present and later     *)
(* than the earliest, and no tie-break applying.                            *)
C2_Witness ==
    /\ cpc = "done"
    /\ \A x \in Present(cand) : Sane(x)
    /\ cand[Exif] # None /\ cand[Modified] # None
    /\ \E m \in Present(cand) :
          /\ IsEarliestOf(m, Present(cand))
          /\ DateOf(cand[Exif]) # DateOf(m)
          /\ DateOf(cand[Modified]) # DateOf(m)
          /\ set_date = m

(* C3: a sane EXIF DateTimeOriginal on the calendar day of the earliest     *)
(* sane candidate is the Set Date, whatever File Modified is.               *)
C3_ExifSameDayWins ==
    (/\ cpc = "done"
     /\ Sane(cand[Exif])
     /\ \E m \in {x \in Present(cand) : Sane(x)} :
            /\ IsEarliestOf(m, {x \in Present(cand) : Sane(x)})
            /\ DateOf(m) = DateOf(cand[Exif]))
    => set_date = cand[Exif]

(* C3 witness: EXIF DateTimeOriginal shares the day of an earlier sane      *)
(* candidate and File Modified is on that day at another time-of-day.       *)
C3_Witness ==
    /\ cpc = "done"
    /\ Sane(cand[Exif])
    /\ SameDayOtherTime(cand[Modified], cand[Exif])
    /\ \E m \in Present(cand) :
          /\ Sane(m) /\ DateLess(m, cand[Exif]) /\ DateOf(m) = DateOf(cand[Exif])
    /\ set_date = cand[Exif]

(* C4 as stated: with a sane EXIF DateTimeOriginal on another day than the  *)
(* earliest sane candidate, Set Date is exactly the earliest sane           *)
(* candidate, for every File Modified.                                      *)
C4_Original ==
    (/\ cpc = "done"
     /\ Sane(cand[Exif]))
    => \A m \in {x \in Present(cand) : Sane(x)} :
          (IsEarliestOf(m, {x \in Present(cand) : Sane(x)})
           /\ DateOf(m) # DateOf(cand[Exif]))
          => set_date = m

(* C4 amended: with a sane EXIF DateTimeOriginal on another day than the    *)
(* earliest sane candidate, Set Date keeps the calendar day of the earliest *)
(* sane candidate and is never EXIF DateTimeOriginal; it is exactly the     *)
(* earliest sane candidate unless File Modified is on that day with another *)
(* time-of-day, and then it is File Modified.                               *)
C4_CrossDayKeepsEarliestDay ==
    (/\ cpc = "done"
     /\ Sane(cand[Exif]))
    => \A m \in {x \in Present(cand) : Sane(x)} :
          (IsEarliestOf(m, {x \in Present(cand) : Sane(x)})
           /\ DateOf(m) # DateOf(cand[Exif]))
          => /\ set_date # None
             /\ DateOf(set_date) = DateOf(m)
             /\ set_date # cand[Exif]
             /\ set_date = (IF SameDayOtherTime(cand[Modified], m)
                            THEN cand[Modified] ELSE m)

(* C4 witness: EXIF DateTimeOriginal is on a later day than the earliest    *)
(* sane candidate and File Modified is on the earliest day at another time. *)
C4_Witness ==
    /\ cpc = "done"
    /\ Sane(cand[Exif])
    /\ \E m \in Present(cand) :
          /\ IsEarliestOf(m, {x \in Present(cand) : Sane(x)})
          /\ DateOf(m) # DateOf(cand[Exif])
          /\ SameDayOtherTime(cand[Modified], m)
          /\ set_date = cand[Modified]

(* C10: if Set Date after the Original-EXIF step differs from EXIF          *)
(* DateTimeOriginal and File Modified is present, sane, on Set Date's day   *)
(* with another time-of-day, the final Set Date is File Modified; if Set    *)
(* Date after that step equals EXIF DateTimeOriginal (both may be absent),  *)
(* the final Set Date is the one of that step.                              *)
C10_ModifiedUpgrade ==
    cpc = "done" =>
      LET after3 == SetDateAfterExif(cand)
          exif_date == date_fields[Exif]
      IN  /\ (/\ after3 # exif_date
              /\ Sane(cand[Modified])
              /\ SameDayOtherTime(cand[Modified], after3))
             => set_date = cand[Modified]
          /\ (after3 = exif_date) => set_date = after3

(* C10 witness: the Original-EXIF step left a Set Date other than EXIF      *)
(* DateTimeOriginal, and a sane File Modified on that day at another time   *)
(* replaced it.                                                             *)
C10_Witness ==
    /\ cpc = "done"
    /\ SetDateAfterExif(cand) # date_fields[Exif]
    /\ Sane(cand[Modified])
    /\ SameDayOtherTime(cand[Modified], SetDateAfterExif(cand))
    /\ set_date = cand[Modified]
    /\ set_date # SetDateAfterExif(cand)

(* C12: Set Date is absent exactly when no candidate is present and sane;  *)
(* otherwise it is, date and time-of-day together, the value of one sane   *)
(* candidate, and it is on the calendar day of the earliest sane           *)
(* candidate.                                                              *)
C12_SetDateIsASaneCandidate ==
    cpc = "done" =>
        LET sane == {x \in Present(cand) : Sane(x)}
        IN  /\ (set_date = None) <=> (sane = {})
            /\ set_date # None =>
                  /\ set_date \in sane
                  /\ \A m \in sane : IsEarliestOf(m, sane) => DateOf(set_date) = DateOf(m)

(* C12 witness: a row with an out-of-range candidate and sane candidates   *)
(* on two days, whose Set Date is a sane candidate of the earliest day but *)
(* not the earliest candidate.                                             *)
C12_Witness ==
    /\ cpc = "done"
    /\ \E x \in Present(cand) : ~Sane(x)
    /\ \E x, y \in Present(cand) : Sane(x) /\ Sane(y) /\ DateOf(x) # DateOf(y)
    /\ set_date \in {x \in Present(cand) : Sane(x)}
    /\ ~IsEarliestOf(set_date, {x \in Present(cand) : Sane(x)})
    /\ \E m \in Present(cand) :
          IsEarliestOf(m, {x \in Present(cand) : Sane(x)}) /\ DateOf(m) = DateOf(set_date)

----------------------------------------------------------------------------
(* Claims about extract_exif_data (checked under SpecExtract) *)

WellFormed(value) ==
    standardize_date(value).ok
    /\ strptime(standardize_date(value).val, EXIF_DATE_FORMAT) # ValueError

(* C8: a date tag whose value cannot be normalized or parsed makes only its *)
(* own candidate absent: every well-formed date tag of the file is a        *)
(* present candidate, wherever it stands in the iteration order.            *)
C8_ParseFailureIsolated ==
    (epc = "done" /\ ~open_fails) =>
        \A i \in 1..Len(exif_data) :
            (exif_data[i][1] \in DateTags /\ WellFormed(exif_data[i][2]))
            => dates[exif_data[i][1]] # None

----------------------------------------------------------------------------
(* Claims about standardize_date (checked under SpecNormalize) *)

(* The 19-character form YYYY:MM:DD HH:MM:SS *)
IsCanonical(s) ==
    /\ Len(s) = 19
    /\ \A i \in {5, 8, 14, 17} : s[i] = Ord[":"]
    /\ s[11] = Ord[" "]
    /\ \A i \in (1..19) \ {5, 8, 11, 14, 17} : InClass(s[i], "0", "9")

Intended(f) == <<f.y, f.m, f.d, f.H, f.M, IF f.S >= 0 THEN f.S ELSE 0, 0>>

CanonicalFields(s) ==
    <<DigitsVal(SubSeq(s, 1, 4)), DigitsVal(SubSeq(s, 6, 7)), DigitsVal(SubSeq(s, 9, 10)),
      DigitsVal(SubSeq(s, 12, 13)), DigitsVal(SubSeq(s, 15, 16)),
      DigitsVal(SubSeq(s, 18, 19)), 0>>

(* The components of the input as it writes them, in the order year,       *)
(* month, day, hour, minute, second, joined as the EXIF form joins them    *)
ymd_string(f) ==
    Written(f, Dec(f.y), TRUE) \o Str(<<":">>)
    \o Written(f, Fld(f.m, f.padded), FALSE) \o Str(<<":">>)
    \o Written(f, Fld(f.d, f.padded), FALSE) \o Str(<<" ">>)
    \o Written(f, Fld(f.H, f.padded), FALSE) \o Str(<<":">>)
    \o Written(f, Fld(f.M, f.padded), FALSE) \o Str(<<":">>)
    \o (IF f.S >= 0 THEN Written(f, Fld(f.S, f.padded), FALSE) ELSE Str(<<"0", "0">>))

(* C9 as stated: every month/day/year string is returned in the form        *)
(* YYYY:MM:DD HH:MM:SS with the fields of the input.                        *)
C9_Original ==
    npc = "done" =>
        /\ std.ok
        /\ IsCanonical(std.val)
        /\ CanonicalFields(std.val) = Intended(date_in)

(* C9 amended: every month/day/year string is returned as its own           *)
(* components, as written, in the order year:month:day hour:minute:second,  *)
(* without the fraction and with seconds 00 when it had none.  When month,  *)
(* day, hour, minute and second are written in ASCII digits (the year in    *)
(* any decimal digits) the returned string parses under                     *)
(* '%Y:%m:%d %H:%M:%S' to the fields of the input, and when all components  *)
(* are ASCII digits and month, day, hour, minute and second have two of     *)
(* them it is in the zero-padded form YYYY:MM:DD HH:MM:SS.  When month and  *)
(* day are written in other decimal digits the returned string does not     *)
(* parse.                                                                   *)
C9_RoundTrip ==
    npc = "done" =>
        /\ std.ok
        /\ std.val = ymd_string(date_in)
        /\ date_in.script # "all" =>
              strptime(std.val, EXIF_DATE_FORMAT) = Intended(date_in)
        /\ (date_in.script = "ascii" /\ date_in.padded) =>
              (IsCanonical(std.val) /\ CanonicalFields(std.val) = Intended(date_in))
        /\ date_in.script = "all" => strptime(std.val, EXIF_DATE_FORMAT) = ValueError

(* C9 witness: a one-digit month and hour, a year in Bengali digits, no     *)
(* seconds and a fraction were repaired into a string that is not           *)
(* zero-padded yet parses to the input's fields.                            *)
C9_Witness ==
    /\ npc = "done"
    /\ ~date_in.padded /\ date_in.m < 10 /\ date_in.S = -1 /\ date_in.frac
    /\ date_in.script = "year"
    /\ std.ok
    /\ ~IsCanonical(std.val)
    /\ strptime(std.val, EXIF_DATE_FORMAT) = Intended(date_in)

----------------------------------------------------------------------------
(* Claims about the update path (checked under SpecUpdate) *)

(* C5 as stated: a writer that ran on a file without error, run again on   *)
(* the same file with the same target date, takes the already-current      *)
(* branch and changes nothing in the file.                                 *)
C5_Original ==
    last.repeat \in {"written", "already", "noexif"} =>
        (last.outcome = "already" /\ last.changed = {})

(* C5 amended: a writer that ran on a file without error, run again on the *)
(* same file, under whatever spelling of its path, with the same target    *)
(* date, writes nothing and leaves the file as it is.  After a write or an *)
(* already-current return the second run takes the already-current branch  *)
(* unless its own read of the file raises; after the return for an image   *)
(* object without _getexif the second run returns there again, unless its  *)
(* read raises.                                                            *)
C5_WriteBackIdempotent ==
    /\ last.repeat \in {"written", "already", "noexif"} =>
          (last.changed = {} /\ fs[last.file] = last.before)
    /\ last.repeat \in {"written", "already"} => last.outcome \in {"already", "error"}
    /\ last.repeat = "noexif" => last.outcome \in {"noexif", "error"}

(* C5 witness: the row before wrote the target date into the file and this *)
(* row, naming the same file by another spelling of its path with the same *)
(* target, found it already current.                                       *)
C5_Witness ==
    /\ last.repeat = "written"
    /\ last.prev # last.path
    /\ last.outcome = "already"
    /\ last.changed = {}
    /\ fs[last.file].exif.dto = last.target
    /\ fs[last.file].exif.dtd = last.target

ClaimFormats ==
    { <<"%Y", "-", "%m", "-", "%d", " ", "%H", ":", "%M", ":", "%S">>,
      <<"%Y", "-", "%m", "-", "%d", " ", "%H", ":", "%M">>,
      <<"%m", "/", "%d", "/", "%Y", " ", "%H", ":", "%M", ":", "%S">>,
      <<"%m", "/", "%d", "/", "%Y", " ", "%H", ":", "%M">> }

ClaimExtensions ==
    { Str(<<".", "j", "p", "g">>), Str(<<".", "j", "p", "e", "g">>), Str(<<".", "p", "n", "g">>),
      Str(<<".", "w", "e", "b", "p">>), Str(<<".", "t", "i", "f", "f">>) }

ParsesUnderClaimFormats ==
    [d \in SetDates |-> \E fmt \in ClaimFormats : strptime(d, fmt) # ValueError]

(* The gates of the claim, on the row and the files on disk *)
PassesEveryGate(row, files) ==
    /\ row.SetDate # NoneStr /\ row.SetDate # <<>>
    /\ row.Folder # NoneStr /\ row.Filename # NoneStr
    /\ os_path_exists(files, WorkingDirectory, os_path_join(row.Folder, row.Filename))
    /\ ParsesUnderClaimFormats[row.SetDate]
    /\ LowerExtension[os_path_join(row.Folder, row.Filename)] \in ClaimExtensions

(* C6: a row that fails a gate (empty Set Date, missing file, Set Date not *)
(* in one of the four formats, extension not jpg, jpeg, png, webp or tiff) *)
(* calls no write function and changes no file.  (No row creates or        *)
(* removes a path, so the paths of fs are those the row found.)            *)
C6_OnlyGatedRowsMutate ==
    (last.outcome # "none" /\ ~PassesEveryGate(last.row, fs))
    => (last.called = "none" /\ last.changed = {})

(* C6 witness: a row for an existing .heic file with a well-formed Set     *)
(* Date was skipped without a call and without a change.                   *)
C6_Witness ==
    /\ last.outcome = "heic"
    /\ last.row.Filename = Str(<<"c", ".", "h", "e", "i", "c">>)
    /\ IsFile(fs, WorkingDirectory, os_path_join(last.row.Folder, last.row.Filename))
    /\ ParsesUnderClaimFormats[last.row.SetDate]
    /\ last.called = "none"
    /\ last.changed = {}

(* C7: no row aborts the rows after it: when process_csv has returned,     *)
(* every row of the CSV has ended in one outcome, written or skipped.      *)
C7_NoRowAbortsTheRest ==
    upc \in {"done", "aborted"} =>
        /\ remaining = 0
        /\ noutcomes + (IF upc = "aborted" THEN 1 ELSE 0) = total

(* The first 10 characters of the existing DateTimeOriginal are those of   *)
(* the target.                                                             *)
SameDatePrefix(f, target) ==
    /\ f.exif.dto # NoneStr
    /\ Prefix(f.exif.dto, 10) = Prefix(target, 10)

(* C11 as stated: set_exif_date changes the file exactly when the existing *)
(* DateTimeOriginal is missing or differs from the target in its first 10  *)
(* characters, and after a change DateTimeOriginal and DateTimeDigitized   *)
(* are the target.                                                         *)
C11_Original ==
    last.called = "set_exif_date" =>
        /\ (last.file \in last.changed) <=> ~SameDatePrefix(last.before, last.target)
        /\ (last.file \in last.changed) =>
              (fs[last.file].exif.dto = last.target /\ fs[last.file].exif.dtd = last.target)

(* C11 amended: set_exif_date changes the file exactly when the existing   *)
(* DateTimeOriginal is missing or differs from the target in its first 10  *)
(* characters and reading, encoding and writing the EXIF block all         *)
(* succeed; with equal prefixes nothing is written, whatever the time of   *)
(* day and DateTimeDigitized are; after a change DateTimeOriginal and      *)
(* DateTimeDigitized are the target.                                       *)
C11_AlreadyCurrentCheck ==
    last.called = "set_exif_date" =>
        /\ (last.file \in last.changed)
              <=> (~SameDatePrefix(last.before, last.target) /\ last.outcome # "error")
        /\ SameDatePrefix(last.before, last.target) => fs[last.file] = last.before
        /\ (last.file \in last.changed) =>
              (fs[last.file].exif.dto = last.target /\ fs[last.file].exif.dtd = last.target)

(* C11 witness: DateTimeOriginal had the target's date with another time   *)
(* of day and DateTimeDigitized held a date of another year;               *)
(* set_exif_date wrote nothing.                                            *)
C11_Witness ==
    /\ last.called = "set_exif_date"
    /\ last.outcome = "already"
    /\ SameDatePrefix(last.before, last.target)
    /\ last.before.exif.dto # last.target
    /\ last.before.exif.dtd \notin {NoneStr, last.target}
    /\ fs[last.file] = last.before

====
